---- MODULE Spec2Model ----
(***************************************************************************)
(* A model of the SPF checker in src/spf.go: domain validation, the        *)
(* check_host entry point with its record fetch, and the record parser     *)
(* (tokenizer, qualifier stripping, the all / ip4 / ip6 / a / mx           *)
(* mechanism parsers and their dispatch loop).                             *)
(*                                                                         *)
(* Go strings are modelled as sequences of atoms.  An atom is one          *)
(* character ("a", ":", "/", " ", ...) or a lexeme standing for a run of   *)
(* characters that no code path of the package looks inside:               *)
(*   "L63", "L64"   a run of 63 / 64 lower-case letters (one label body),  *)
(*   address literals such as "192.0.2.1", "2001:db8::1",                  *)
(*   "::ffff:192.0.2.1", which only net.ParseCIDR interprets.              *)
(***************************************************************************)
EXTENDS Integers, Sequences, FiniteSets, TLC

VARIABLES
    pc,       \* "idle", "fetch" (CheckHost awaits the resolver) or "done"
    op,       \* the entry point called: "", "CheckHost" or "Parse"
    args,     \* its arguments
    domainV,  \* CheckHost: the validated domain handed to the record fetch
    lookups,  \* the resolver queries issued by the call
    answer,   \* the resolver's answer to the TXT query
    fetched,  \* what getSPFRecord returned: (record, err)
    ret,      \* what CheckHost returned: (CheckHostResult, error)
    prec      \* what Parse returned: (*Record, error)

vars == <<pc, op, args, domainV, lookups, answer, fetched, ret, prec>>

(***************************************************************************)
(* Bounds of the model.                                                    *)
(***************************************************************************)
MaxLabels == 3
MaxTerms == 2

(***************************************************************************)
(* Program constants.                                                      *)
(***************************************************************************)
MaxDNSLookups == 10
MaxVoidLookups == 2

(***************************************************************************)
(* Characters.                                                             *)
(***************************************************************************)
UpperSeq == <<"A", "B", "C", "D", "E", "F", "G", "H", "I", "J", "K", "L", "M",
              "N", "O", "P", "Q", "R", "S", "T", "U", "V", "W", "X", "Y", "Z">>
LowerSeq == <<"a", "b", "c", "d", "e", "f", "g", "h", "i", "j", "k", "l", "m",
              "n", "o", "p", "q", "r", "s", "t", "u", "v", "w", "x", "y", "z">>
DigitSeq == <<"0", "1", "2", "3", "4", "5", "6", "7", "8", "9">>

Range(f) == {f[i] : i \in DOMAIN f}
Upper == Range(UpperSeq)
Lower == Range(LowerSeq)
Digits == Range(DigitSeq)
Runs == {"L63", "L64"}

\* Address literals, as net/netip classifies them.
AddrV4 == {"192.0.2.1"}
AddrV6 == {"2001:db8::1"}
AddrV4In6 == {"::ffff:192.0.2.1"}
AddrLits == AddrV4 \cup AddrV6 \cup AddrV4In6

\* len(): the number of octets an atom stands for.
Weight(c) ==
    CASE c = "L63" -> 63
      [] c = "L64" -> 64
      [] c = "192.0.2.1" -> 9
      [] c = "2001:db8::1" -> 11
      [] c = "::ffff:192.0.2.1" -> 16
      [] OTHER -> 1

RECURSIVE StrLen(_)
StrLen(s) == IF s = <<>> THEN 0 ELSE Weight(Head(s)) + StrLen(Tail(s))

\* The characters of a lexeme, where a caller looks inside it.
Explode1(c) ==
    CASE c = "192.0.2.1" -> <<"1", "9", "2", ".", "0", ".", "2", ".", "1">>
      [] c = "2001:db8::1" ->
             <<"2", "0", "0", "1", ":", "d", "b", "8", ":", ":", "1">>
      [] c = "::ffff:192.0.2.1" ->
             <<":", ":", "f", "f", "f", "f", ":", "1", "9", "2", ".", "0", ".",
               "2", ".", "1">>
      [] OTHER -> <<c>>

RECURSIVE Explode(_)
Explode(s) == IF s = <<>> THEN <<>> ELSE Explode1(Head(s)) \o Explode(Tail(s))

(***************************************************************************)
(* package strings                                                         *)
(***************************************************************************)
ToLower1(c) ==
    IF c \in Upper
    THEN LowerSeq[CHOOSE i \in DOMAIN UpperSeq : UpperSeq[i] = c]
    ELSE c

ToLower(s) == [i \in DOMAIN s |-> ToLower1(s[i])]

HasPrefix(s, p) == Len(s) >= Len(p) /\ SubSeq(s, 1, Len(p)) = p

HasSuffix(s, p) ==
    Len(s) >= Len(p) /\ SubSeq(s, Len(s) - Len(p) + 1, Len(s)) = p

TrimPrefix(s, p) == IF HasPrefix(s, p) THEN SubSeq(s, Len(p) + 1, Len(s)) ELSE s

TrimSuffix(s, p) == IF HasSuffix(s, p) THEN SubSeq(s, 1, Len(s) - Len(p)) ELSE s

IsSpace(c) == c \in {" ", "\t"}

RECURSIVE TrimLeftSpace(_)
TrimLeftSpace(s) ==
    IF s # <<>> /\ IsSpace(Head(s)) THEN TrimLeftSpace(Tail(s)) ELSE s

RECURSIVE TrimRightSpace(_)
TrimRightSpace(s) ==
    IF s # <<>> /\ IsSpace(s[Len(s)])
    THEN TrimRightSpace(SubSeq(s, 1, Len(s) - 1))
    ELSE s

TrimSpace(s) == TrimRightSpace(TrimLeftSpace(s))

\* strings.IndexByte, 1-based; 0 when absent.
IndexOf(s, c) ==
    IF \E i \in DOMAIN s : s[i] = c
    THEN CHOOSE i \in DOMAIN s : s[i] = c /\ \A j \in 1..(i - 1) : s[j] # c
    ELSE 0

Contains(s, c) == IndexOf(s, c) # 0

RECURSIVE Split(_, _)
Split(s, sep) ==
    LET i == IndexOf(s, sep)
    IN IF i = 0 THEN <<s>>
       ELSE <<SubSeq(s, 1, i - 1)>> \o Split(SubSeq(s, i + 1, Len(s)), sep)

\* strings.Cut
Cut(s, sep) ==
    LET i == IndexOf(s, sep)
    IN IF i = 0 THEN [before |-> s, after |-> <<>>, found |-> FALSE]
       ELSE [before |-> SubSeq(s, 1, i - 1),
             after |-> SubSeq(s, i + 1, Len(s)), found |-> TRUE]

\* strings.Fields: the maximal runs of non-space characters.
RECURSIVE Fields(_)
Fields(s) ==
    LET t == TrimLeftSpace(s)
        n == IF \E i \in DOMAIN t : IsSpace(t[i])
             THEN (CHOOSE i \in DOMAIN t :
                       IsSpace(t[i]) /\ \A j \in 1..(i - 1) : ~IsSpace(t[j])) - 1
             ELSE Len(t)
    IN IF t = <<>> THEN <<>>
       ELSE <<SubSeq(t, 1, n)>> \o Fields(SubSeq(t, n + 1, Len(t)))

\* strings.Trim(s, cutset)
RECURSIVE TrimSet(_, _)
TrimSet(s, cutset) ==
    IF s # <<>> /\ Head(s) \in cutset THEN TrimSet(Tail(s), cutset)
    ELSE IF s # <<>> /\ s[Len(s)] \in cutset
    THEN TrimSet(SubSeq(s, 1, Len(s) - 1), cutset)
    ELSE s

(***************************************************************************)
(* Domain validation.                                                      *)
(***************************************************************************)
\* One label under the idna.Lookup profile (STD3 rules, hyphen checks, no
\* DNS length verification): letters, digits and inner hyphens.
IdnaLabelOK(l) ==
    /\ \A i \in DOMAIN l : l[i] \in Lower \cup Upper \cup Digits \cup Runs \cup {"-"}
    /\ l # <<>> => (l[1] # "-" /\ l[Len(l)] # "-")
    /\ Len(l) > 4 => ~(l[3] = "-" /\ l[4] = "-")

\* idna.Lookup.ToASCII: the mapped (lower-cased) name, or an error.
IdnaToASCII(s) ==
    LET e == Explode(s)
        labels == Split(e, ".")
    IN [ok |-> \A i \in DOMAIN labels : IdnaLabelOK(labels[i]),
        s |-> ToLower(e)]

\* The loop over the labels without its case for an empty label.
RECURSIVE CheckLabels_NoEmptyCase(_)
CheckLabels_NoEmptyCase(labels) ==
    IF labels = <<>> THEN "nil"
    ELSE IF StrLen(Head(labels)) > 63 THEN "ErrLabelTooLong"
    ELSE CheckLabels_NoEmptyCase(Tail(labels))

\* The loop over the labels: the first label that is empty or too long
\* decides the error.
RECURSIVE CheckLabels(_)
CheckLabels(labels) ==
    IF labels = <<>> THEN "nil"
    ELSE IF StrLen(Head(labels)) = 0 THEN "ErrEmptyLabel"
    ELSE IF StrLen(Head(labels)) > 63 THEN "ErrLabelTooLong"
    ELSE CheckLabels(Tail(labels))

ValidateDomain(raw) ==
    LET trimmed == TrimSuffix(TrimSpace(raw), <<".">>)
        conv == IdnaToASCII(trimmed)
        ascii == ToLower(conv.s)
        labels == Split(ascii, ".")
        fail(e) == [s |-> <<>>, err |-> e]
    IN IF ~conv.ok THEN fail("ErrIDNAConversion")
       ELSE IF StrLen(ascii) > 255 THEN fail("ErrDomainTooLong")
       ELSE IF Len(labels) < 2 THEN fail("ErrSingleLabel")
       ELSE IF CheckLabels(labels) # "nil" THEN fail(CheckLabels(labels))
       ELSE [s |-> ascii, err |-> "nil"]

localPart(sender) ==
    LET s == TrimSet(sender, {"<", ">"})
        at == IndexOf(s, "@")
    IN IF at > 1 THEN SubSeq(s, 1, at - 1)
       ELSE <<"p", "o", "s", "t", "m", "a", "s", "t", "e", "r">>

(***************************************************************************)
(* Numbers.                                                                *)
(***************************************************************************)
DigitVal(c) == (CHOOSE i \in DOMAIN DigitSeq : DigitSeq[i] = c) - 1

RECURSIVE DecValue(_)
DecValue(ds) ==
    IF ds = <<>> THEN 0
    ELSE 10 * DecValue(SubSeq(ds, 1, Len(ds) - 1)) + DigitVal(ds[Len(ds)])

AllDigits(s) == s # <<>> /\ \A i \in DOMAIN s : s[i] \in Digits

\* strconv.Atoi: an optional sign and decimal digits.
Atoi(s) ==
    LET signed == s # <<>> /\ Head(s) \in {"+", "-"}
        body == IF signed THEN Tail(s) ELSE s
    IN IF ~AllDigits(body) THEN [ok |-> FALSE, n |-> 0]
       ELSE [ok |-> TRUE,
             n |-> IF signed /\ Head(s) = "-" THEN 0 - DecValue(body)
                   ELSE DecValue(body)]

(***************************************************************************)
(* package net                                                             *)
(***************************************************************************)
\* netip.ParseAddr: the literal and its bit length, or an error.
ParseAddr(s) ==
    IF Len(s) = 1 /\ s[1] \in AddrLits
    THEN [ok |-> TRUE, lit |-> s[1], bits |-> IF s[1] \in AddrV4 THEN 32 ELSE 128]
    ELSE [ok |-> FALSE, lit |-> "", bits |-> 0]

\* IP.To4() != nil: an IPv4 address, or an IPv6 address in ::ffff:0:0/96.
To4NotNil(lit) == lit \in AddrV4 \cup AddrV4In6

\* net.ParseCIDR: the address, and the network with its mask (ones, bits).
ParseCIDR(s) ==
    LET i == IndexOf(s, "/")
        addr == ParseAddr(SubSeq(s, 1, i - 1))
        mask == SubSeq(s, i + 1, Len(s))
        n == DecValue(mask)
        bad == [ok |-> FALSE, ip |-> "", ones |-> 0, bits |-> 0]
    IN IF i = 0 THEN bad
       ELSE IF ~addr.ok THEN bad
       ELSE IF ~AllDigits(mask) THEN bad
       ELSE IF n > addr.bits THEN bad
       ELSE [ok |-> TRUE, ip |-> addr.lit, ones |-> n, bits |-> addr.bits]

(***************************************************************************)
(* The record parser.                                                      *)
(***************************************************************************)
VersionTag == <<"v", "=", "s", "p", "f", "1">>

tokenizer(raw) ==
    LET r == TrimSpace(raw)
        fields == Tail(Fields(r))
    IN IF ~HasPrefix(ToLower(r), VersionTag)
       THEN [fields |-> <<>>, err |-> "missing v=spf1"]
       ELSE IF Len(fields) = 0 THEN [fields |-> <<>>, err |-> "no terms"]
       ELSE [fields |-> fields, err |-> "nil"]

stripQualifier(tok) ==
    IF tok = <<>> THEN [q |-> "+", rest |-> tok]
    ELSE IF Head(tok) \in {"+", "-", "~", "?"}
    THEN [q |-> Head(tok), rest |-> Tail(tok)]
    ELSE [q |-> "+", rest |-> tok]

\* A *Mechanism: <<>> is nil.
NoMech(e) == [mech |-> <<>>, err |-> e]

Mech(q, kind, netw, domain, mask4, mask6) ==
    [mech |-> <<[Qual |-> q, Kind |-> kind, Net |-> netw, Domain |-> domain,
                 Mask4 |-> mask4, Mask6 |-> mask6, Macro |-> <<>>]>>,
     err |-> "nil"]

parseAll(q, rest) ==
    IF rest # <<"a", "l", "l">> THEN NoMech("not all")
    ELSE Mech(q, "all", <<>>, <<>>, 0, 0)

parseIP4(q, rest) ==
    LET pre == <<"i", "p", "4", ":">>
        arg == TrimPrefix(rest, pre)
        cidr == IF ~Contains(arg, "/") THEN arg \o <<"/", "3", "2">> ELSE arg
        c == ParseCIDR(cidr)
    IN IF ~HasPrefix(rest, pre) THEN NoMech("no match")
       ELSE IF ~c.ok \/ ~To4NotNil(c.ip) THEN NoMech("bad ipcidr")
       ELSE IF c.ones > 32 THEN NoMech("cidr out of range")
       ELSE Mech(q, "ip4", <<[ip |-> c.ip, ones |-> c.ones, bits |-> c.bits]>>,
                 <<>>, 0, 0)

parseIP6(q, rest) ==
    LET pre == <<"i", "p", "6", ":">>
        arg == TrimPrefix(rest, pre)
        cidr == IF ~Contains(arg, "/") THEN arg \o <<"/", "1", "2", "8">> ELSE arg
        c == ParseCIDR(cidr)
    IN IF ~HasPrefix(rest, pre) THEN NoMech("no match")
       ELSE IF ~c.ok \/ To4NotNil(c.ip) THEN NoMech("bad ipcidr")
       ELSE IF c.ones > 128 THEN NoMech("cidr out out of range")
       ELSE Mech(q, "ip6", <<[ip |-> c.ip, ones |-> c.ones, bits |-> c.bits]>>,
                 <<>>, 0, 0)

toInt(s, max) ==
    LET a == Atoi(s)
    IN IF ~a.ok \/ a.n < 0 \/ a.n > max
       THEN [n |-> 0, err |-> "cidr out of range"]
       ELSE [n |-> a.n, err |-> "nil"]

parseMasks(maskstr) ==
    LET parts == Split(maskstr, "/")
        m4 == toInt(parts[1], 32)
        m6 == toInt(parts[2], 128)
    IN IF Len(parts) = 1 THEN [mask4 |-> m4.n, mask6 |-> -1, err |-> m4.err]
       ELSE IF Len(parts) = 2
       THEN IF m4.err # "nil" THEN [mask4 |-> m4.n, mask6 |-> 0, err |-> m4.err]
            ELSE [mask4 |-> m4.n, mask6 |-> m6.n, err |-> m6.err]
       ELSE [mask4 |-> 0, mask6 |-> 0, err |-> "too many / segments in mask"]

\* The ":domain[/masks]" branch shared in shape by parseA and parseMX.
DomainAndMasks(q, kind, spec, domErr) ==
    LET afterColon == TrimPrefix(spec, <<":">>)
        c == Cut(afterColon, "/")
        domainPart == c.before
        maskPart == c.after
        m == parseMasks(maskPart)
    IN IF domainPart # <<>> /\ ValidateDomain(domainPart).err # "nil"
       THEN NoMech(domErr)
       ELSE IF maskPart # <<>> /\ m.err # "nil" THEN NoMech(m.err)
       ELSE Mech(q, kind, <<>>, domainPart,
                 IF maskPart # <<>> THEN m.mask4 ELSE -1,
                 IF maskPart # <<>> THEN m.mask6 ELSE -1)

parseA(q, rest) ==
    LET spec == Tail(rest)
        m == parseMasks(TrimPrefix(spec, <<"/">>))
    IN IF ~HasPrefix(rest, <<"a">>) THEN NoMech("no match")
       ELSE IF spec = <<>> THEN Mech(q, "a", <<>>, <<>>, -1, -1)
       ELSE IF HasPrefix(spec, <<"/">>)
       THEN IF m.err # "nil" THEN NoMech(m.err)
            ELSE Mech(q, "a", <<>>, <<>>, m.mask4, m.mask6)
       ELSE IF HasPrefix(spec, <<":">>)
       THEN DomainAndMasks(q, "a", spec, "bad a record domain")
       ELSE NoMech("invalid a-mechanism syntax")

parseMX(q, rest) ==
    LET spec == SubSeq(rest, 3, Len(rest))
        m == parseMasks(TrimPrefix(spec, <<"/">>))
    IN IF ~HasPrefix(rest, <<"m", "x">>) THEN NoMech("no match")
       ELSE IF spec = <<>> THEN Mech(q, "mx", <<>>, <<>>, -1, -1)
       ELSE IF HasPrefix(spec, <<"/">>)
       THEN IF m.err # "nil" THEN NoMech(m.err)
            ELSE Mech(q, "mx", <<>>, <<>>, m.mask4, m.mask6)
       ELSE IF HasPrefix(spec, <<>>)
       THEN DomainAndMasks(q, "mx", spec, "bad domain")
       ELSE NoMech("invalid mx-mechanism syntax")

\* The ordered list of mechanism parsers.
NumParsers == 5

mechParsers(i, q, rest) ==
    CASE i = 1 -> parseAll(q, rest)
      [] i = 2 -> parseIP4(q, rest)
      [] i = 3 -> parseIP6(q, rest)
      [] i = 4 -> parseA(q, rest)
      [] i = 5 -> parseMX(q, rest)

\* The inner loop of Parse: the first parser without an error, else the
\* error of the last parser tried.
RECURSIVE Dispatch(_, _, _)
Dispatch(i, q, rest) ==
    LET r == mechParsers(i, q, rest)
    IN IF r.err = "nil" \/ i = NumParsers THEN r ELSE Dispatch(i + 1, q, rest)

ParseTerm(tok) ==
    LET s == stripQualifier(tok) IN Dispatch(1, s.q, s.rest)

EmptyRecord == [Mechs |-> <<>>, Redirect |-> <<>>, Exp |-> <<>>, Unknown |-> <<>>]

\* The outer loop of Parse over the tokens, record being the *Record so far.
RECURSIVE ParseTokens(_, _)
ParseTokens(tokens, record) ==
    IF tokens = <<>> THEN [rec |-> <<record>>, err |-> <<>>]
    ELSE LET r == ParseTerm(Head(tokens))
         IN IF r.err # "nil" THEN [rec |-> <<>>, err |-> <<"permerror", r.err>>]
            ELSE ParseTokens(Tail(tokens),
                             [record EXCEPT !.Mechs = Append(@, r.mech[1])])

\* Parse: (<<record>>, <<>>) or (<<>>, err).
Parse(rawTXT) ==
    LET t == tokenizer(rawTXT)
    IN IF t.err # "nil" THEN [rec |-> <<>>, err |-> <<t.err>>]
       ELSE ParseTokens(t.fields, EmptyRecord)

(***************************************************************************)
(* The resolver and the record fetch.                                      *)
(***************************************************************************)
TxtFail == <<"v", "=", "s", "p", "f", "1", " ", "-", "a", "l", "l">>  \* v=spf1 -all
TxtRedirectS == <<"v", "=", "s", "p", "f", "1", " ", "r", "e", "d", "i", "r", "e", "c", "t", "=", "s", ".", "x">>  \* v=spf1 redirect=s.x
TxtRedirectR == <<"v", "=", "s", "p", "f", "1", " ", "r", "e", "d", "i", "r", "e", "c", "t", "=", "r", ".", "x">>  \* v=spf1 redirect=r.x
TxtOther == <<"h", "e", "l", "l", "o">>  \* hello
TxtPass == <<"V", "=", "s", "p", "f", "1", " ", "+", "a", "l", "l">>  \* V=spf1 +all
TxtSoft == <<"v", "=", "s", "p", "f", "1", " ", "~", "a", "l", "l">>  \* v=spf1 ~all
DomF == <<"f", ".", "x">>  \* f.x
DomP == <<"p", ".", "x">>  \* p.x
DomR == <<"r", ".", "x">>  \* r.x
DomS == <<"s", ".", "x">>  \* s.x
DomN == <<"n", ".", "x">>  \* n.x
DomE == <<"e", ".", "x">>  \* e.x
DomM == <<"m", ".", "x">>  \* m.x
DomQ == <<"q", ".", "x">>  \* q.x

\* Domains given to CheckHost: the names of the zone, and malformed ones.
CuratedDomains ==
    { <<"f", ".", "x">>,  \* f.x
      <<"F", ".", "X", ".">>,  \* F.X.
      <<" ", "f", ".", "x", " ">>,  \*  f.x 
      <<"p", ".", "x">>,  \* p.x
      <<"r", ".", "x">>,  \* r.x
      <<"s", ".", "x">>,  \* s.x
      <<"n", ".", "x">>,  \* n.x
      <<"e", ".", "x">>,  \* e.x
      <<"m", ".", "x">>,  \* m.x
      <<"q", ".", "x">>,  \* q.x
      <<"u", ".", "x">>,  \* u.x
      <<>>,  \* (empty)
      <<".">>,  \* .
      <<"x">>,  \* x
      <<"x", ".">>,  \* x.
      <<"L64">>,  \* <64 letters>
      <<"_">>,  \* _
      <<"_", "x">>,  \* _x
      <<"f", ".", ".", "x">>,  \* f..x
      <<".", "f", ".", "x">>,  \* .f.x
      <<"f", ".", "x", ".", ".">>,  \* f.x..
      <<"L64", ".", "x">>,  \* <64 letters>.x
      <<"f", ".", "L64">>,  \* f.<64 letters>
      <<"_", "f", ".", "x">>,  \* _f.x
      <<"-", "f", ".", "x">>,  \* -f.x
      <<"f", "-", ".", "x">>,  \* f-.x
      <<"f", " ", "x">>,  \* f x
      \* <63 letters>.<63 letters>.<63 letters>.<63 letters>.a
      <<"L63", ".", "L63", ".", "L63", ".", "L63", ".", "a">>,
      \* <63 letters>.<63 letters>.<63 letters>.<63 letters>
      <<"L63", ".", "L63", ".", "L63", ".", "L63">>,
      \* <63 letters>.<63 letters>.<63 letters>.<64 letters>
      <<"L63", ".", "L63", ".", "L63", ".", "L64">>,
      \* <63 letters>.<63 letters>.<63 letters>.<63 letters>.a.
      <<"L63", ".", "L63", ".", "L63", ".", "L63", ".", "a", ".">>,
      \* <63 letters>.<63 letters>.<63 letters>.<63 letters>..a
      <<"L63", ".", "L63", ".", "L63", ".", "L63", ".", ".", "a">>,
      \* <63 letters>.<63 letters>.<63 letters>.<63 letters>._
      <<"L63", ".", "L63", ".", "L63", ".", "L63", ".", "_">>,
      <<"L64", ".">>,  \* <64 letters>.
      <<"192.0.2.1">>,  \* 192.0.2.1
      <<"2001:db8::1">> }  \* 2001:db8::1

\* MAIL FROM values.
Senders ==
    { <<"<", ">">>,  \* <>
      <<"u", "@", "f", ".", "x">>,  \* u@f.x
      <<"<", "u", "@", "f", ".", "x", ">">>,  \* <u@f.x>
      <<"f", ".", "x">>,  \* f.x
      <<"@", "f", ".", "x">> }  \* @f.x

\* The TXT records of the zone the resolver serves; any other name does
\* not exist.
ZoneNames == {DomF, DomP, DomR, DomS, DomN, DomE, DomM, DomQ}

Zone(d) ==
    CASE d = DomF -> <<TxtFail>>
      [] d = DomP -> <<TxtOther, TxtFail>>
      [] d = DomR -> <<TxtRedirectS>>
      [] d = DomS -> <<TxtRedirectR>>
      [] d = DomN -> <<TxtOther>>
      [] d = DomE -> <<>>
      [] d = DomM -> <<TxtFail, TxtSoft>>
      [] d = DomQ -> <<TxtPass>>

Txt(txts) == [kind |-> "txt", txts |-> txts]
Failure(kind) == [kind |-> kind, txts |-> <<>>]

\* TXTResolver: the answers a TXT query for d can get.
Resolve(d) ==
    {IF d \in ZoneNames THEN Txt(Zone(d)) ELSE Failure("nxdomain")}
        \cup {Failure(k) : k \in {"transient", "canceled", "deadline", "fault"}}

IsSPF(txt) == HasPrefix(ToLower(txt), VersionTag)

Fetched(rec, err) == [rec |-> rec, err |-> err]

\* getSPFRecord: the results the fetch can report for an answer.
getSPFRecord(a) ==
    LET cands == SelectSeq(a.txts, IsSPF)
    IN CASE a.kind = "canceled" -> {Fetched(<<>>, "context.Canceled")}
         [] a.kind = "deadline" -> {Fetched(<<>>, "context.DeadlineExceeded")}
         [] a.kind = "transient" -> {Fetched(<<>>, "ErrTempfail")}
         [] a.kind = "nxdomain" ->
                {Fetched(<<>>, "ErrPermfail"), Fetched(<<>>, "ErrNoDNSrecord")}
         [] a.kind = "fault" -> {Fetched(<<>>, "resolver fault")}
         [] a.kind = "txt" /\ Len(cands) = 0 ->
                {Fetched(<<>>, "ErrNoDNSrecord"), Fetched(<<>>, "nil")}
         [] a.kind = "txt" /\ Len(cands) = 1 -> {Fetched(cands[1], "nil")}
         [] a.kind = "txt" /\ Len(cands) > 1 -> {Fetched(<<>>, "ErrMultipleSPF")}

(***************************************************************************)
(* check_host                                                              *)
(***************************************************************************)
\* The Checker NewChecker builds.
NewChecker == [MaxLookups |-> MaxDNSLookups, MaxVoidLookups |-> MaxVoidLookups]

\* (CheckHostResult{Code, Cause}, err); Code "" is the zero value.
Returned(code, cause, err) == [Code |-> code, Cause |-> cause, err |-> err]

evaluate(c, ip, domain, spf, lp) ==
    Returned("neutral", "policy exists but no assertion", "nil")

\* CheckHost up to the record fetch: the result for a malformed domain.
CheckHostInvalid(cause) == Returned("none", cause, "nil")

\* The switch on the fetch error with the deadline taken for a transient
\* DNS failure.
CheckHostFetched_DeadlineAsTempfail(c, ip, valDomain, f, lp) ==
    IF f.err = "context.Canceled" THEN Returned("", "nil", f.err)
    ELSE IF f.err = "ErrNoDNSrecord" THEN Returned("none", f.err, f.err)
    ELSE IF f.err \in {"ErrTempfail", "context.DeadlineExceeded"}
    THEN Returned("temperror", f.err, "nil")
    ELSE IF f.err \in {"ErrPermfail", "ErrMultipleSPF"}
    THEN Returned("permerror", f.err, "nil")
    ELSE IF f.err # "nil" THEN Returned("", "nil", f.err)
    ELSE IF f.rec = <<>> THEN Returned("", "nil", f.err)
    ELSE evaluate(c, ip, valDomain, f.rec, lp)

\* CheckHost from the return of getSPFRecord on.
CheckHostFetched(c, ip, valDomain, f, lp) ==
    IF f.err \in {"context.Canceled", "context.DeadlineExceeded"}
    THEN Returned("", "nil", f.err)
    ELSE IF f.err = "ErrNoDNSrecord" THEN Returned("none", f.err, f.err)
    ELSE IF f.err = "ErrTempfail" THEN Returned("temperror", f.err, "nil")
    ELSE IF f.err \in {"ErrPermfail", "ErrMultipleSPF"}
    THEN Returned("permerror", f.err, "nil")
    ELSE IF f.err # "nil" THEN Returned("", "nil", f.err)
    ELSE IF f.rec = <<>> THEN Returned("", "nil", f.err)
    ELSE evaluate(c, ip, valDomain, f.rec, lp)

(***************************************************************************)
(* The inputs.                                                             *)
(***************************************************************************)
RECURSIVE Join(_, _)
Join(parts, sep) ==
    IF Len(parts) = 0 THEN <<>>
    ELSE IF Len(parts) = 1 THEN parts[1]
    ELSE parts[1] \o sep \o Join(Tail(parts), sep)

\* Label bodies: empty, one letter, 63 letters, 64 letters, an underscore.
Pieces == {<<>>, <<"a">>, <<"L63">>, <<"L64">>, <<"_">>}

SeqsUpTo(S, lo, hi) == UNION {[1..n -> S] : n \in lo..hi}

GeneratedDomains ==
    {Join(ls, <<".">>) \o dot : ls \in SeqsUpTo(Pieces, 1, MaxLabels),
                               dot \in {<<>>, <<".">>}}

\* The terms tried one per record.
Terms ==
    { <<"a", "l", "l">>,  \* all
      <<"+", "a", "l", "l">>,  \* +all
      <<"-", "a", "l", "l">>,  \* -all
      <<"~", "a", "l", "l">>,  \* ~all
      <<"?", "a", "l", "l">>,  \* ?all
      <<"a", "l", "l", "x">>,  \* allx
      <<"A", "L", "L">>,  \* ALL
      <<"i", "p", "4", ":", "192.0.2.1">>,  \* ip4:192.0.2.1
      <<"i", "p", "4", ":", "192.0.2.1", "/", "2", "4">>,  \* ip4:192.0.2.1/24
      <<"i", "p", "4", ":", "192.0.2.1", "/", "3", "3">>,  \* ip4:192.0.2.1/33
      <<"i", "p", "4", ":", "192.0.2.1", "/">>,  \* ip4:192.0.2.1/
      <<"-", "i", "p", "4", ":", "192.0.2.1", "/", "0">>,  \* -ip4:192.0.2.1/0
      <<"i", "p", "4", ":", "2001:db8::1">>,  \* ip4:2001:db8::1
      <<"i", "p", "4", ":", "2001:db8::1", "/", "2", "4">>,  \* ip4:2001:db8::1/24
      <<"-", "i", "p", "4", ":", "2001:db8::1">>,  \* -ip4:2001:db8::1
      <<"i", "p", "4", ":", "2001:db8::1", "/", "1", "2", "8">>,  \* ip4:2001:db8::1/128
      <<"i", "p", "4", ":", "::ffff:192.0.2.1">>,  \* ip4:::ffff:192.0.2.1
      <<"i", "p", "4", ":", "::ffff:192.0.2.1", "/", "2", "4">>,  \* ip4:::ffff:192.0.2.1/24
      <<"~", "i", "p", "4", ":", "::ffff:192.0.2.1">>,  \* ~ip4:::ffff:192.0.2.1
      <<"i", "p", "4", ":", "::ffff:192.0.2.1", "/", "9", "6">>,  \* ip4:::ffff:192.0.2.1/96
      <<"i", "p", "4", ":", "h", ".", "x">>,  \* ip4:h.x
      <<"i", "p", "6", ":", "2001:db8::1">>,  \* ip6:2001:db8::1
      <<"i", "p", "6", ":", "2001:db8::1", "/", "6", "4">>,  \* ip6:2001:db8::1/64
      <<"i", "p", "6", ":", "2001:db8::1", "/", "1", "2", "9">>,  \* ip6:2001:db8::1/129
      <<"?", "i", "p", "6", ":", "2001:db8::1">>,  \* ?ip6:2001:db8::1
      <<"i", "p", "6", ":", "192.0.2.1">>,  \* ip6:192.0.2.1
      <<"i", "p", "6", ":", "192.0.2.1", "/", "2", "4">>,  \* ip6:192.0.2.1/24
      <<"~", "i", "p", "6", ":", "192.0.2.1">>,  \* ~ip6:192.0.2.1
      <<"i", "p", "6", ":", "192.0.2.1", "/", "1", "2", "8">>,  \* ip6:192.0.2.1/128
      <<"i", "p", "6", ":", "::ffff:192.0.2.1">>,  \* ip6:::ffff:192.0.2.1
      <<"a">>,  \* a
      <<"-", "a">>,  \* -a
      <<"a", "/", "2", "4">>,  \* a/24
      <<"a", "/", "2", "4", "/", "6", "4">>,  \* a/24/64
      <<"a", "/", "3", "3">>,  \* a/33
      <<"a", "/", "2", "4", "/", "1", "2", "9">>,  \* a/24/129
      <<"a", "/", "2", "4", "/", "6", "4", "/", "1">>,  \* a/24/64/1
      <<"a", "/">>,  \* a/
      <<"a", "/", "-", "1">>,  \* a/-1
      <<"a", "/", "+", "8">>,  \* a/+8
      <<"a", "/", "x">>,  \* a/x
      <<"a", ":", "h", ".", "x">>,  \* a:h.x
      <<"a", ":", "h", ".", "x", "/", "2", "4">>,  \* a:h.x/24
      <<"a", ":", "h", ".", "x", "/", "2", "4", "/", "6", "4">>,  \* a:h.x/24/64
      <<"a", ":", "h", ".", "x", "/", "3", "3">>,  \* a:h.x/33
      <<"a", ":", "x">>,  \* a:x
      <<"a", ":", "L64", ".", "x">>,  \* a:<64 letters>.x
      <<"a", ":", "h", ".", ".", "x">>,  \* a:h..x
      <<"a", ":">>,  \* a:
      <<"a", ":", "/", "2", "4">>,  \* a:/24
      <<"a", ":", "h", ".", "x", "/">>,  \* a:h.x/
      <<"a", "h", ".", "x">>,  \* ah.x
      <<"a", "f", "o", "o">>,  \* afoo
      <<"a", "=", "b">>,  \* a=b
      <<"m", "x">>,  \* mx
      <<"~", "m", "x">>,  \* ~mx
      <<"m", "x", "/", "2", "4">>,  \* mx/24
      <<"m", "x", "/", "2", "4", "/", "6", "4">>,  \* mx/24/64
      <<"m", "x", "/", "3", "3">>,  \* mx/33
      <<"m", "x", "/", "2", "4", "/", "6", "4", "/", "1">>,  \* mx/24/64/1
      <<"m", "x", ":", "h", ".", "x">>,  \* mx:h.x
      <<"m", "x", ":", "h", ".", "x", "/", "2", "4">>,  \* mx:h.x/24
      <<"m", "x", ":", "h", ".", "x", "/", "2", "4", "/", "6", "4">>,  \* mx:h.x/24/64
      <<"m", "x", ":", "h", ".", "x", "/", "1", "2", "9">>,  \* mx:h.x/129
      <<"m", "x", ":", "x">>,  \* mx:x
      <<"m", "x", ":", "L64", ".", "x">>,  \* mx:<64 letters>.x
      <<"m", "x", ":">>,  \* mx:
      <<"m", "x", "h", ".", "x">>,  \* mxh.x
      <<"m", "x", "f", "o", "o", ".", "c", "o", "m">>,  \* mxfoo.com
      <<"-", "m", "x", "h", ".", "x", "/", "2", "4">>,  \* -mxh.x/24
      <<"m", "x", "f", "o", "o">>,  \* mxfoo
      <<"m", "x", "=", "h", ".", "x">>,  \* mx=h.x
      <<"m", "x", "h", ".", "x", "/", "2", "4", "/", "6", "4">>,  \* mxh.x/24/64
      <<"r", "e", "d", "i", "r", "e", "c", "t", "=", "h", ".", "x">>,  \* redirect=h.x
      <<"e", "x", "p", "=", "h", ".", "x">>,  \* exp=h.x
      <<"f", "o", "o", "=", "b", "a", "r">>,  \* foo=bar
      <<"p", "t", "r">>,  \* ptr
      <<"i", "n", "c", "l", "u", "d", "e", ":", "h", ".", "x">>,  \* include:h.x
      <<"e", "x", "i", "s", "t", "s", ":", "h", ".", "x">>,  \* exists:h.x
      <<"x">>,  \* x
      <<"+">>,  \* +
      <<"-">> }  \* -

\* The terms combined into records of several terms.
PairTerms ==
    { <<"-", "a", "l", "l">>,  \* -all
      <<"r", "e", "d", "i", "r", "e", "c", "t", "=", "h", ".", "x">>,  \* redirect=h.x
      <<"r", "e", "d", "i", "r", "e", "c", "t", "=", "g", ".", "x">>,  \* redirect=g.x
      <<"e", "x", "p", "=", "h", ".", "x">>,  \* exp=h.x
      <<"e", "x", "p", "=", "g", ".", "x">>,  \* exp=g.x
      <<"f", "o", "o", "=", "b", "a", "r">>,  \* foo=bar
      <<"m", "x", "h", ".", "x">>,  \* mxh.x
      <<"i", "p", "4", ":", "::ffff:192.0.2.1">> }  \* ip4:::ffff:192.0.2.1

\* First tokens of a record.
Versions ==
    { <<"v", "=", "s", "p", "f", "1">>,  \* v=spf1
      <<"V", "=", "S", "P", "F", "1">>,  \* V=SPF1
      <<"v", "=", "s", "p", "f", "1", "0">>,  \* v=spf10
      <<"v", "=", "s", "p", "f", "1", "x">>,  \* v=spf1x
      <<"v", "=", "s", "p", "f", "1", "-", "a", "l", "l">>,  \* v=spf1-all
      <<"v", "=", "s", "p", "f", "2">>,  \* v=spf2
      <<"v", "=", "s", "p", "f">>,  \* v=spf
      <<"s", "p", "f", "1">>,  \* spf1
      <<>> }  \* (empty)

\* Records with other spacing, and the TXT strings of the zone.
OtherRecords ==
      \*   v=spf1   -all  
    { <<" ", " ", "v", "=", "s", "p", "f", "1", " ", " ", " ", "-", "a", "l", "l", " ", " ">>,
      <<"v", "=", "s", "p", "f", "1", "\t", "-", "a", "l", "l">>,  \* v=spf1\t-all
      <<"v", "=", "s", "p", "f", "1", " ">>,  \* v=spf1 
      <<" ", "v", "=", "s", "p", "f", "1", "0", " ">>,  \*  v=spf10 
      <<"-", "a", "l", "l", " ", "v", "=", "s", "p", "f", "1">>,  \* -all v=spf1
      \* v=spf1x -all mx
      <<"v", "=", "s", "p", "f", "1", "x", " ", "-", "a", "l", "l", " ", "m", "x">>,
      \* v=spf1 redirect=r.x
      <<"v", "=", "s", "p", "f", "1", " ", "r", "e", "d", "i", "r", "e", "c", "t", "=", "r",
        ".", "x">>,
      \* v=spf1 redirect=s.x
      <<"v", "=", "s", "p", "f", "1", " ", "r", "e", "d", "i", "r", "e", "c", "t", "=", "s",
        ".", "x">>,
      <<"h", "e", "l", "l", "o">>,  \* hello
      <<"V", "=", "s", "p", "f", "1", " ", "+", "a", "l", "l">>,  \* V=spf1 +all
      <<"v", "=", "s", "p", "f", "1", " ", "~", "a", "l", "l">> }  \* v=spf1 ~all

IPs == {"192.0.2.1", "2001:db8::1"}

Domains == CuratedDomains \cup GeneratedDomains

Records ==
    {VersionTag \o <<" ">> \o t : t \in Terms}
        \cup {v \o tail : v \in Versions, tail \in {<<>>, <<" ", "-", "a", "l", "l">>}}
        \cup {VersionTag \o <<" ">> \o Join(ts, <<" ">>) :
                  ts \in SeqsUpTo(PairTerms, 2, MaxTerms)}
        \cup OtherRecords

(***************************************************************************)
(* The state machine: one call at a time of CheckHost or Parse.            *)
(***************************************************************************)
NoArgs == [ip |-> "", domain |-> <<>>, sender |-> <<>>, rawTXT |-> <<>>]
NoAnswer == Failure("")
NoFetched == Fetched(<<>>, "")
NoReturn == Returned("", "", "")
NoRecord == [rec |-> <<>>, err |-> <<>>]

Init ==
    /\ pc = "idle"
    /\ op = ""
    /\ args = NoArgs
    /\ domainV = <<>>
    /\ lookups = 0
    /\ answer = NoAnswer
    /\ fetched = NoFetched
    /\ ret = NoReturn
    /\ prec = NoRecord

\* CheckHost, up to its return for a malformed domain or to the TXT query
\* of getSPFRecord.
CheckHost(ip, domain, sender) ==
    LET v == ValidateDomain(domain)
    IN /\ pc = "idle"
       /\ op' = "CheckHost"
       /\ args' = [NoArgs EXCEPT !.ip = ip, !.domain = domain, !.sender = sender]
       /\ IF v.err # "nil"
          THEN /\ ret' = CheckHostInvalid(v.err)
               /\ pc' = "done"
               /\ UNCHANGED <<domainV, lookups>>
          ELSE /\ domainV' = v.s
               /\ lookups' = lookups + 1
               /\ pc' = "fetch"
               /\ UNCHANGED ret
       /\ UNCHANGED <<answer, fetched, prec>>

\* The resolver answers, getSPFRecord returns, and CheckHost runs to its
\* return.
CheckHostResume ==
    /\ pc = "fetch"
    /\ \E a \in Resolve(domainV) :
           \E f \in getSPFRecord(a) :
               /\ answer' = a
               /\ fetched' = f
               /\ ret' = CheckHostFetched(NewChecker, args.ip, domainV, f,
                                          localPart(args.sender))
    /\ pc' = "done"
    /\ UNCHANGED <<op, args, domainV, lookups, prec>>

ParseCall(rawTXT) ==
    /\ pc = "idle"
    /\ op' = "Parse"
    /\ args' = [NoArgs EXCEPT !.rawTXT = rawTXT]
    /\ prec' = Parse(rawTXT)
    /\ pc' = "done"
    /\ UNCHANGED <<domainV, lookups, answer, fetched, ret>>

\* The caller takes the result; the next call starts afresh.
Return ==
    /\ pc = "done"
    /\ pc' = "idle"
    /\ op' = ""
    /\ args' = NoArgs
    /\ domainV' = <<>>
    /\ lookups' = 0
    /\ answer' = NoAnswer
    /\ fetched' = NoFetched
    /\ ret' = NoReturn
    /\ prec' = NoRecord

Next ==
    \/ \E ip \in IPs, d \in Domains, s \in Senders : CheckHost(ip, d, s)
    \/ CheckHostResume
    \/ \E r \in Records : ParseCall(r)
    \/ Return

Spec == Init /\ [][Next]_vars

(***************************************************************************)
(* Properties.                                                             *)
(***************************************************************************)
CheckHostDone == pc = "done" /\ op = "CheckHost"
ParseDone == pc = "done" /\ op = "Parse"

Results == {"none", "neutral", "pass", "fail", "softfail", "temperror", "permerror"}

\* The TXT records of the answer that begin with v=spf1.
Qualifying == SelectSeq(answer.txts, IsSPF)

\* C1: when the resolver returns exactly one qualifying TXT record,
\* "v=spf1 -all", CheckHost returns Code=Fail with a nil error, for every
\* connecting IP and every sender.
C1_MinusAllIsFail ==
    (CheckHostDone /\ answer.kind = "txt" /\ Qualifying = <<TxtFail>>)
        => (ret.Code = "fail" /\ ret.err = "nil")

\* C2: when the SPF records of two domains each consist only of a redirect=
\* to the other, CheckHost on either domain returns Code=PermError, with the
\* cap of 10 lookups consumed.
C2_MutualRedirectIsPermError ==
    (CheckHostDone /\ answer.kind = "txt"
        /\ Qualifying \in {<<TxtRedirectS>>, <<TxtRedirectR>>})
        => (ret.Code = "permerror" /\ lookups >= NewChecker.MaxLookups)

\* C3: when the top-level TXT fetch yields no record beginning with v=spf1,
\* reported either as ErrNoDNSrecord or as an empty record with no error,
\* CheckHost returns Code=None and a nil error.
C3_NoRecordIsNone ==
    (CheckHostDone /\ answer.kind = "txt" /\ Qualifying = <<>>)
        => (ret.Code = "none" /\ ret.err = "nil")

\* C4: when the record fetch fails with context cancellation or deadline
\* exceeded, CheckHost returns that error as its error, and the result
\* carries none of the seven Result values: its Code is empty.
C4_CancellationIsTransportError ==
    (CheckHostDone /\ fetched.err \in {"context.Canceled", "context.DeadlineExceeded"})
        => (ret.err = fetched.err /\ ret.Code = "" /\ ret.Code \notin Results)

\* C4 happens: a call whose fetch reported the deadline has returned.
C4_Witness ==
    /\ CheckHostDone
    /\ lookups = 1
    /\ fetched.err = "context.DeadlineExceeded"
    /\ ret.err = "context.DeadlineExceeded"

\* C5: a record-fetch failure classified as permanent gives Code=None and
\* one classified as transient gives Code=TempError.
C5_PermanentIsNoneTransientIsTempError ==
    CheckHostDone
        => /\ fetched.err = "ErrPermfail" => ret.Code = "none"
           /\ fetched.err = "ErrTempfail" => ret.Code = "temperror"

\* The classes of malformed domains, on the name as given less its
\* surrounding space and one trailing dot: the conversion fails, over 255
\* octets, one label, an empty label among several, a label over 63 octets.
Name(d) == ToLower(Explode(TrimSuffix(TrimSpace(d), <<".">>)))
LabelsOf(d) == Split(Name(d), ".")
IDNAFails(d) == \E i \in DOMAIN LabelsOf(d) : ~IdnaLabelOK(LabelsOf(d)[i])
TotalTooLong(d) == StrLen(Name(d)) > 255
SingleLabel(d) == ~Contains(Name(d), ".")
EmptyAt(d, i) == StrLen(LabelsOf(d)[i]) = 0
LongAt(d, i) == StrLen(LabelsOf(d)[i]) > 63
HasEmptyLabel(d) == ~SingleLabel(d) /\ \E i \in DOMAIN LabelsOf(d) : EmptyAt(d, i)
HasLongLabel(d) == \E i \in DOMAIN LabelsOf(d) : LongAt(d, i)
Malformed(d) ==
    IDNAFails(d) \/ TotalTooLong(d) \/ SingleLabel(d) \/ HasEmptyLabel(d)
        \/ HasLongLabel(d)

\* CheckHost has returned for a malformed domain, with Code=None, a nil
\* error and no resolver query.
NoneWithoutLookup ==
    /\ pc = "done"
    /\ ret.Code = "none"
    /\ ret.err = "nil"
    /\ lookups = 0
    /\ answer = NoAnswer

\* C6 as stated: for every input domain in one of the malformed classes,
\* CheckHost returns Code=None, a nil error and no resolver lookup, with
\* Cause the sentinel of that class.
C6_CauseIsSentinelOfEachClass ==
    (op = "CheckHost" /\ Malformed(args.domain))
        => /\ NoneWithoutLookup
           /\ IDNAFails(args.domain) => ret.Cause = "ErrIDNAConversion"
           /\ TotalTooLong(args.domain) => ret.Cause = "ErrDomainTooLong"
           /\ SingleLabel(args.domain) => ret.Cause = "ErrSingleLabel"
           /\ HasEmptyLabel(args.domain) => ret.Cause = "ErrEmptyLabel"
           /\ HasLongLabel(args.domain) => ret.Cause = "ErrLabelTooLong"

\* The class that decides the Cause of a domain in several classes.
FirstBadLabel(d) ==
    CHOOSE i \in DOMAIN LabelsOf(d) :
        /\ EmptyAt(d, i) \/ LongAt(d, i)
        /\ \A j \in 1..(i - 1) : ~EmptyAt(d, j) /\ ~LongAt(d, j)

DecidingSentinel(d) ==
    IF IDNAFails(d) THEN "ErrIDNAConversion"
    ELSE IF TotalTooLong(d) THEN "ErrDomainTooLong"
    ELSE IF SingleLabel(d) THEN "ErrSingleLabel"
    ELSE IF EmptyAt(d, FirstBadLabel(d)) THEN "ErrEmptyLabel"
    ELSE "ErrLabelTooLong"

\* C6, amended: for every input domain in at least one malformed class,
\* CheckHost returns Code=None, a nil error and no resolver lookup, with
\* Cause the sentinel of one class the domain is in: ErrIDNAConversion when
\* the conversion fails, else ErrDomainTooLong when the name exceeds 255
\* octets, else ErrSingleLabel when it has one label, else ErrEmptyLabel or
\* ErrLabelTooLong by its leftmost label that is empty or over 63 octets.
C6_CauseIsDecidingSentinel ==
    (op = "CheckHost" /\ Malformed(args.domain))
        => /\ NoneWithoutLookup
           /\ ret.Cause = DecidingSentinel(args.domain)

\* C6 happens: a domain with a label over 63 octets whose name is also over
\* 255 octets has been refused, with the length of the name as the Cause.
C6_Witness ==
    /\ CheckHostDone
    /\ HasLongLabel(args.domain)
    /\ TotalTooLong(args.domain)
    /\ ~IDNAFails(args.domain)
    /\ ret.Code = "none"
    /\ ret.Cause = "ErrDomainTooLong"

\* The terms of a record as given: its fields after the first.
TermsOf(raw) == LET f == Fields(raw) IN IF f = <<>> THEN <<>> ELSE Tail(f)
FirstField(raw) == LET f == Fields(raw) IN IF f = <<>> THEN <<>> ELSE Head(f)
Unqualified(tok) ==
    IF tok # <<>> /\ Head(tok) \in {"+", "-", "~", "?"} THEN Tail(tok) ELSE tok

\* An ip4: term with an IPv6 literal, or an ip6: term with an IPv4 literal.
FamilyMismatch(tok) ==
    LET r == Unqualified(tok)
    IN /\ Len(r) >= 5
       /\ \/ SubSeq(r, 1, 4) = <<"i", "p", "4", ":">> /\ r[5] \in AddrV6 \cup AddrV4In6
          \/ SubSeq(r, 1, 4) = <<"i", "p", "6", ":">> /\ r[5] \in AddrV4

\* C7: Parse returns an error for every record containing an ip4: term whose
\* address is an IPv6 literal or an ip6: term whose address is an IPv4
\* literal, with or without a /prefix and with any qualifier.
C7_FamilyMismatchIsError ==
    (ParseDone /\ \E i \in DOMAIN TermsOf(args.rawTXT) :
                      FamilyMismatch(TermsOf(args.rawTXT)[i]))
        => prec.err # <<>>

\* A term shaped as name=value.
NameChars == Lower \cup Upper \cup Digits \cup {"-", "_", "."}
IsModifier(tok) ==
    LET i == IndexOf(tok, "=")
    IN i > 1 /\ tok[1] \in Lower \cup Upper
             /\ \A j \in 1..(i - 1) : tok[j] \in NameChars
ModName(tok) == ToLower(SubSeq(tok, 1, IndexOf(tok, "=") - 1))
ModValue(tok) == SubSeq(tok, IndexOf(tok, "=") + 1, Len(tok))
Named(terms, name) == SelectSeq(terms, LAMBDA t : IsModifier(t) /\ ModName(t) = name)
IsKnownName(n) == n \in {<<"r", "e", "d", "i", "r", "e", "c", "t">>, <<"e", "x", "p">>}

\* C8: Parse takes every term shaped as name=value as a modifier: one
\* redirect= or exp= is stored in Record.Redirect or Record.Exp, a second
\* occurrence of either makes Parse fail, and any other name=value term is
\* appended to Record.Unknown without a parse error.
C8_ModifiersAreRecorded ==
    LET terms == TermsOf(args.rawTXT)
        redirects == Named(terms, <<"r", "e", "d", "i", "r", "e", "c", "t">>)
        exps == Named(terms, <<"e", "x", "p">>)
        others == SelectSeq(terms, LAMBDA t : ~IsKnownName(ModName(t)))
    IN (ParseDone /\ FirstField(args.rawTXT) = VersionTag /\ terms # <<>>
            /\ \A i \in DOMAIN terms : IsModifier(terms[i]))
        => IF Len(redirects) > 1 \/ Len(exps) > 1 THEN prec.err # <<>>
           ELSE /\ prec.err = <<>>
                /\ Len(prec.rec[1].Redirect) = Len(redirects)
                /\ Len(prec.rec[1].Exp) = Len(exps)
                /\ Len(prec.rec[1].Unknown) = Len(others)

\* The text after the keyword of an a or mx term; <<>> for other terms.
IsAorMX(tok) ==
    LET r == Unqualified(tok)
    IN r # <<"a", "l", "l">> /\ (HasPrefix(r, <<"a">>) \/ HasPrefix(r, <<"m", "x">>))
AfterKeyword(tok) ==
    LET r == Unqualified(tok)
    IN IF HasPrefix(r, <<"m", "x">>) THEN SubSeq(r, 3, Len(r)) ELSE Tail(r)

\* C9: Parse accepts an a or mx term only when the text after the keyword is
\* empty or goes on with ":" (a domain) or "/" (masks); an mx followed at
\* once by other characters, as in mxfoo.example.com, is a parse error.
C9_KeywordIsFollowedByColonOrSlash ==
    (ParseDone /\ prec.err = <<>>)
        => \A i \in DOMAIN TermsOf(args.rawTXT) :
               LET t == TermsOf(args.rawTXT)[i]
               IN IsAorMX(t) =>
                      \/ AfterKeyword(t) = <<>>
                      \/ Head(AfterKeyword(t)) \in {":", "/"}

\* C10: Parse succeeds only when the first whitespace-separated token of the
\* record equals v=spf1 case-insensitively; a record whose first token is
\* anything else, v=spf10 or v=spf1x included, fails with the
\* missing-version error, and the version token alone fails with the
\* no-terms error.
C10_FirstTokenIsVersion ==
    ParseDone
        => IF ToLower(FirstField(args.rawTXT)) # VersionTag
           THEN prec.err = <<"missing v=spf1">>
           ELSE TermsOf(args.rawTXT) = <<>> => prec.err = <<"no terms">>

====
